---- MODULE Spec2Model ----
(***************************************************************************)
(* swaggerize-express-vmt: the Express route builder (lib/expressroutes,   *)
(* in its older and its newer version), the mount entry point, and the     *)
(* scaffolding script bin/lib/create.js.                                   *)
(*                                                                         *)
(* Strings are sequences of tokens: a path "/pets/{id}" is                 *)
(* <<"/", "pets", "/", "{id}">>, a header "text/plain, */*" is             *)
(* <<"text/plain", ", ", "*/*">>.  String operations (split, includes,     *)
(* replace, prefix) work on the token sequences.                           *)
(***************************************************************************)
EXTENDS Integers, Sequences, FiniteSets, TLC

VARIABLES
    pipeline,    \* "older" | "newer": which lib/expressroutes is loaded
    errorName,   \* module-level `let errorName` of the newer file (<<>> = undefined)
    mounts,      \* the options object of every expressroutes call, as left by it
    stack,       \* router.stack: the layers in registration order
    req,         \* the request in flight
    res,         \* its response
    pc,          \* "idle" | "run" | "auth" | "done"
    pos,         \* <<layer, step>>: the middleware that runs next
    err,         \* the error handed to next(err) (NoError when none)
    auth,        \* authorize(): errors, pending callbacks, whether done() ran
    trace,       \* the middleware that ran for this request, in order
    fs,          \* the scaffolding script's file system
    out          \* the scaffolding script's last run

vars == <<pipeline, errorName, mounts, stack, req, res, pc, pos, err, auth, trace, fs, out>>

(***************************************************************************)
(* Bounds.                                                                 *)
(***************************************************************************)
MaxRoutes == 2
MaxMounts == 2

(***************************************************************************)
(* String helpers (JavaScript String / Array methods on token sequences).  *)
(***************************************************************************)
Range(s) == {s[i] : i \in 1..Len(s)}

StartsWithAt(s, p, i) ==
    /\ i + Len(p) - 1 <= Len(s)
    /\ \A k \in 1..Len(p) : s[i + k - 1] = p[k]

\* String.prototype.indexOf, 1-based; 0 when absent
IndexOf(s, p) ==
    LET hits == {i \in 1..(Len(s) + 1) : StartsWithAt(s, p, i)}
    IN  IF hits = {} THEN 0 ELSE CHOOSE i \in hits : \A j \in hits : i <= j

Includes(s, p) == IndexOf(s, p) # 0

\* String.prototype.replace with a string pattern: the first occurrence only
ReplaceFirst(s, p, r) ==
    LET i == IndexOf(s, p)
    IN  IF i = 0 THEN s
        ELSE SubSeq(s, 1, i - 1) \o r \o SubSeq(s, i + Len(p), Len(s))

RECURSIVE SplitOn(_, _)
SplitOn(s, sep) ==
    LET i == IndexOf(s, <<sep>>)
    IN  IF i = 0 THEN <<s>>
        ELSE <<SubSeq(s, 1, i - 1)>> \o SplitOn(SubSeq(s, i + 1, Len(s)), sep)

RECURSIVE Join(_, _)
Join(parts, sep) ==
    IF parts = <<>> THEN <<>>
    ELSE IF Len(parts) = 1 THEN parts[1]
    ELSE parts[1] \o <<sep>> \o Join(Tail(parts), sep)

\* Array.prototype.indexOf(v) !== -1
Contains(a, v) == \E i \in 1..Len(a) : a[i] = v

\* a.filter((v, i, a) => a.indexOf(v) === i)
Dedup(a) ==
    LET keep == {i \in 1..Len(a) : \A j \in 1..(i - 1) : a[j] # a[i]}
        F[i \in 0..Len(a)] ==
            IF i = 0 THEN <<>>
            ELSE IF i \in keep THEN F[i - 1] \o <<a[i]>> ELSE F[i - 1]
    IN  F[Len(a)]

RECURSIVE Flatten(_)
Flatten(ss) == IF ss = <<>> THEN <<>> ELSE ss[1] \o Flatten(Tail(ss))

\* utils.prefix(str, pre)
Prefix(s, pre) == IF StartsWithAt(s, pre, 1) THEN s ELSE pre \o s

\* utils.unsuffix(str, suffix)
Unsuffix(s, suf) ==
    IF Len(s) >= Len(suf) /\ StartsWithAt(s, suf, Len(s) - Len(suf) + 1)
    THEN SubSeq(s, 1, Len(s) - Len(suf)) ELSE s

\* String.prototype.toLowerCase / toUpperCase on the tokens in use
ToLowerCase(t) ==
    CASE t = "GET" -> "get" [] t = "POST" -> "post" [] t = "PUT" -> "put"
      [] t = "DELETE" -> "delete" [] t = "Content-Type" -> "content-type"
      [] t = "Pet" -> "pet"
      [] OTHER -> t

ToUpperCase(t) ==
    CASE t = "get" -> "GET" [] t = "post" -> "POST" [] t = "put" -> "PUT"
      [] t = "delete" -> "DELETE"
      [] OTHER -> t

UpperAll(s) == [i \in 1..Len(s) |-> ToUpperCase(s[i])]

(***************************************************************************)
(* The inputs: media types, parameters, security requirements, routes.     *)
(***************************************************************************)
Json == <<"application/json">>
Text == <<"text/plain">>
NoError == [status |-> 0, title |-> "", name |-> "", from |-> ""]
NoSecurity == [present |-> FALSE, schemes |-> <<>>]

\* route.validators entries: {parameter: {name, in, required}, validate}
PId     == [name |-> "id", in |-> "path", required |-> TRUE]
PBody   == [name |-> "body", in |-> "body", required |-> TRUE]
PCType  == [name |-> "Content-Type", in |-> "header", required |-> FALSE]
PCTypeR == [name |-> "Content-Type", in |-> "header", required |-> TRUE]
PLimit  == [name |-> "limit", in |-> "query", required |-> FALSE]

\* route.security: scheme name -> {scopes, authorize}; authorize is absent
\* ("none"), or calls back before it returns ("sync") or later ("async")
SApiKey == [name |-> "apiKey", authorize |-> "none", scopes |-> "k"]
SOauth  == [name |-> "oauth", authorize |-> "async", scopes |-> "o"]
SBasic  == [name |-> "basic", authorize |-> "sync", scopes |-> "b"]
SJwt    == [name |-> "jwt", authorize |-> "async", scopes |-> "j"]

Single(h) == [isArray |-> FALSE, fns |-> <<h>>]
Array(hs) == [isArray |-> TRUE, fns |-> hs]

\* The routes swaggerize-routes derives from an api document
RouteUniverse == <<
    [method |-> "get", path |-> <<"/", "pets">>, handler |-> Single("h"),
     validators |-> <<PLimit>>, consumes |-> <<>>, produces |-> <<Json>>,
     security |-> NoSecurity],
    [method |-> "post", path |-> <<"/", "pets">>, handler |-> Array(<<"pre", "h">>),
     validators |-> <<PCTypeR, PBody>>, consumes |-> <<Json>>, produces |-> <<Json, Text>>,
     security |-> [present |-> TRUE, schemes |-> <<SApiKey, SOauth>>]],
    [method |-> "get", path |-> <<"/", "pets", "/", "{id}">>, handler |-> Array(<<"h">>),
     validators |-> <<PId>>, consumes |-> <<>>, produces |-> <<>>,
     security |-> [present |-> TRUE, schemes |-> <<SBasic, SOauth>>]],
    [method |-> "put", path |-> <<"/", "pets", "/", "{id}">>, handler |-> Single("h"),
     validators |-> <<PId, PCType>>, consumes |-> <<Json, Text, Json>>, produces |-> <<Json>>,
     security |-> [present |-> TRUE, schemes |-> <<SApiKey>>]],
    [method |-> "post", path |-> <<"/", "pets", "/", "mine">>, handler |-> Single("h"),
     validators |-> <<>>, consumes |-> <<Text>>, produces |-> <<Text>>,
     security |-> NoSecurity],
    [method |-> "delete", path |-> <<"pets">>, handler |-> Single("h"),
     validators |-> <<>>, consumes |-> <<>>, produces |-> <<Json>>,
     security |-> NoSecurity],
    [method |-> "put", path |-> <<"/", "pets">>, handler |-> Single("h"),
     validators |-> <<>>, consumes |-> <<Json>>, produces |-> <<Json>>,
     security |-> [present |-> TRUE, schemes |-> <<SOauth, SJwt>>]] >>

\* Route lists: up to MaxRoutes routes of the universe, in the universe's order
IndexLists(n) ==
    {s \in UNION {[1..k -> 1..Len(RouteUniverse)] : k \in 0..n} :
        \A i \in 1..(Len(s) - 1) : s[i] < s[i + 1]}

RouteLists == {[i \in 1..Len(s) |-> RouteUniverse[s[i]]] : s \in IndexLists(MaxRoutes)}

(***************************************************************************)
(* Registration: buildRoutePath, makeExpressRoute, expressroutes.          *)
(***************************************************************************)
IsParam(tok) == tok \in {"{id}", ":id"}

\* path.replace(/{([^}]+)}/g, ':$1')
BraceToColon(path) == [i \in 1..Len(path) |-> IF path[i] = "{id}" THEN ":id" ELSE path[i]]

BuildRoutePath(mountpath, path) == mountpath \o Prefix(BraceToColon(path), <<"/">>)

\* options.api.basePath = utils.prefix(options.api.basePath || '/', '/')
BasePath(given) == Prefix(IF given = <<>> THEN <<"/">> ELSE given, <<"/">>)

Mountpath(basePath) == Unsuffix(basePath, <<"/">>)

\* options.docspath = utils.prefix(options.docspath || '/api-docs', '/')
Docspath == <<"/", "api-docs">>

Fn(name, k) == [name |-> name, k |-> k]

\* as Before, but with the validators ahead of the array's entries
BeforeValidatorsFirst(route) ==
    (IF route.security.present THEN <<Fn("authorize", 0)>> ELSE <<>>)
    \o [k \in 1..Len(route.validators) |-> Fn("validateInput", k)]
    \o (IF route.handler.isArray /\ Len(route.handler.fns) > 1
        THEN [k \in 1..(Len(route.handler.fns) - 1) |-> Fn("pre", k)] ELSE <<>>)

\* the middleware makeExpressRoute puts before route.handler
Before(route) ==
    (IF route.security.present THEN <<Fn("authorize", 0)>> ELSE <<>>)
    \o (IF route.handler.isArray /\ Len(route.handler.fns) > 1
        THEN [k \in 1..(Len(route.handler.fns) - 1) |-> Fn("pre", k)] ELSE <<>>)
    \o [k \in 1..Len(route.validators) |-> Fn("validateInput", k)]

\* route.handler after makeExpressRoute: the last entry of an array
FinalHandler(handler) ==
    IF handler.isArray THEN Single(handler.fns[Len(handler.fns)]) ELSE handler

Layer(kind, m, r, method, path, chain, methods, consumes, produces) ==
    [kind |-> kind, m |-> m, r |-> r, method |-> method, path |-> path, chain |-> chain,
     methods |-> methods, consumes |-> consumes, produces |-> produces]

\* router[route.method](path, ...before, route.handler)
MakeExpressRoute(m, mountpath, routes, r) ==
    Layer("route", m, r, routes[r].method, BuildRoutePath(mountpath, routes[r].path),
          Before(routes[r]) \o <<Fn("handler", 0)>>, <<>>, <<>>, <<>>)

\* as RoutePathKeys, but one key per route: a group per route, not per path
RoutePathKeysPerRoute(mountpath, routes) ==
    [r \in 1..Len(routes) |-> BuildRoutePath(mountpath, routes[r].path)]

\* Object.keys(routesMethod): the resolved paths, each once, in order of first use
RoutePathKeys(mountpath, routes) ==
    Dedup([r \in 1..Len(routes) |-> BuildRoutePath(mountpath, routes[r].path)])

RoutesOf(mountpath, routes, routePath) ==
    {r \in 1..Len(routes) : BuildRoutePath(mountpath, routes[r].path) = routePath}

Ascending(S) ==
    LET F[T \in SUBSET S] ==
            IF T = {} THEN <<>>
            ELSE LET x == CHOOSE y \in T : \A z \in T : y <= z
                 IN  <<x>> \o F[T \ {x}]
    IN  F[S]

\* routesMethod[routePath]: one push per route
RoutesMethod(mountpath, routes, routePath) ==
    LET rs == Ascending(RoutesOf(mountpath, routes, routePath))
    IN  [i \in 1..Len(rs) |-> ToLowerCase(routes[rs[i]].method)]

\* routesConsumes[routePath] / routesProduces[routePath]: method -> media types
MediaTypesOf(mountpath, routes, routePath, field) ==
    LET rs == Ascending(RoutesOf(mountpath, routes, routePath))
        ms == {ToLowerCase(routes[r].method) : r \in RoutesOf(mountpath, routes, routePath)}
        of(meth) == SelectSeq(rs, LAMBDA r : ToLowerCase(routes[r].method) = meth)
    IN  [meth \in ms |->
            Dedup(Flatten([i \in 1..Len(of(meth)) |->
                IF field = "consumes" THEN routes[of(meth)[i]].consumes
                ELSE routes[of(meth)[i]].produces]))]

OlderUse == <<Fn("notAllowed", 0), Fn("validateContentTypeHeader", 0),
              Fn("validateAcceptHeader", 0)>>

NewerUse == <<Fn("appendSwaggerDefinitionsToReq", 0)>> \o OlderUse

\* router.use(pathRegexp(routePath), ...) for one resolved path
UseLayer(pl, m, mountpath, routes, routePath) ==
    Layer("use", m, 0, "", routePath, IF pl = "newer" THEN NewerUse ELSE OlderUse,
          RoutesMethod(mountpath, routes, routePath),
          MediaTypesOf(mountpath, routes, routePath, "consumes"),
          MediaTypesOf(mountpath, routes, routePath, "produces"))

\* what one expressroutes(router, options) call adds to router.stack
Expressroutes(pl, m, options) ==
    LET mountpath == Mountpath(BasePath(options.basePath))
        routes == options.routes
        keys == RoutePathKeys(mountpath, routes)
    IN  <<Layer("docs", m, 0, "get", mountpath \o Docspath, <<Fn("docs", 0)>>, <<>>, <<>>, <<>>)>>
        \o [r \in 1..Len(routes) |-> MakeExpressRoute(m, mountpath, routes, r)]
        \o [k \in 1..Len(keys) |-> UseLayer(pl, m, mountpath, routes, keys[k])]

\* the options object as expressroutes leaves it
Mounted(options) ==
    [given |-> options,
     basePath |-> BasePath(options.basePath),
     errorname |-> options.errorname,
     routes |-> [r \in 1..Len(options.routes) |->
                    [options.routes[r] EXCEPT !.handler = FinalHandler(@)]]]

(***************************************************************************)
(* Express: matching a layer, next(), sending a response.                  *)
(***************************************************************************)
\* the non-empty segments of a path
Segments(path) == SelectSeq(SplitOn(path, "/"), LAMBDA seg : seg # <<>>)

\* the regular expression path-to-regexp makes of a route path, applied to a url
PathMatch(pattern, path) ==
    LET ps == Segments(pattern)
        us == Segments(path)
    IN  /\ Len(ps) = Len(us)
        /\ \A i \in 1..Len(ps) : IsParam(ps[i][1]) \/ ps[i] = us[i]

\* Layer.match, and for a route its method
Matches(layer, r) ==
    /\ PathMatch(layer.path, r.path)
    /\ layer.kind = "use" \/ layer.method = ToLowerCase(r.method)

\* where next() goes from step s of layer l: the rest of the layer's chain, then the
\* next matching layer; <<0, 0>> past the end of the stack
NextPos(stk, r, l, s) ==
    IF l > 0 /\ s < Len(stk[l].chain) THEN <<l, s + 1>>
    ELSE LET later == {i \in (l + 1)..Len(stk) : Matches(stk[i], r)}
         IN  IF later = {} THEN <<0, 0>>
             ELSE <<CHOOSE i \in later : \A j \in later : i <= j, 1>>

NewResponse == [statusCode |-> 200, headersSent |-> FALSE, sentStatus |-> 0,
                allow |-> <<>>, title |-> ""]

\* res.status(s).send(body) / res.sendStatus(s) on a response not yet sent
Sent(r, s, title) ==
    [r EXCEPT !.statusCode = s, !.headersSent = TRUE, !.sentStatus = s, !.title = title]

\* what Layer.handle_request catches when a middleware writes to a sent response
HeadersSentError ==
    [status |-> 0, title |-> "ERR_HTTP_HEADERS_SENT", name |-> "Error", from |-> ""]

NoAuth ==
    [errors |-> <<>>, pending |-> {}, result |-> "", invoked |-> <<>>, scopes |-> "", at |-> 0,
     reported |-> {}, called |-> ""]

Cur == stack[pos[1]].chain[pos[2]]
CurLayer == stack[pos[1]]
Running(name) == pc = "run" /\ Cur.name = name

\* the record of a middleware run: what ran, what it reported, what it saw
Ran(fail, info) ==
    trace' = Append(trace, [l |-> pos[1], name |-> Cur.name, k |-> Cur.k, fail |-> fail,
                            info |-> info, def |-> req.swaggerDefinition,
                            sent |-> res.headersSent])

\* next()
Continue(r) ==
    LET np == NextPos(stack, r, pos[1], pos[2])
    IN  /\ pos' = np
        /\ pc' = IF np = <<0, 0>> THEN "done" ELSE "run"
        /\ err' = err

\* next(e): no error-handling middleware is registered here, the request leaves the stack
Forward(e) == pc' = "done" /\ err' = e /\ pos' = pos

\* the middleware returns without calling next
End == pc' = "done" /\ err' = err /\ pos' = pos

(***************************************************************************)
(* Requests.                                                               *)
(***************************************************************************)
Methods == {"GET", "POST", "PUT"}
RelPaths == {<<"/", "pets">>, <<"/", "pets", "/", "7">>, <<"/", "pets", "/", "mine">>,
             <<"/", "api-docs">>}
ContentTypes == {<<>>, <<"*/*">>, <<"application/json">>, <<"text/plain">>,
                 <<"application/json", ";charset=utf-8">>}
Accepts == {<<>>, <<"*/*">>, <<"application/json">>, <<"text/plain", ", ", "application/json">>,
            <<"text/plain", ", ", "*/*">>, <<"image/png">>, <<"image/png", ",", "*/*">>}

\* the requests served; an empty body comes only with a POST that has no Accept header
Requests(bases) ==
    {r \in [method : Methods, path : {b \o p : b \in bases, p \in RelPaths},
            ct : ContentTypes, accept : Accepts, body : {"", "raw"},
            id : {"raw"}, limit : {"raw"},
            expressroutes : {0}, swaggerDefinition : {<<>>}, requiredScopes : {""}] :
        r.body = "" => (r.method = "POST" /\ r.accept = <<>>)}

MountedBases == {Mountpath(mounts[m].basePath) : m \in 1..Len(mounts)}

\* a request arrives: the router hands it to the first matching layer
NewRequest ==
    /\ pc = "idle"
    /\ stack # <<>>
    /\ \E r \in Requests(MountedBases) :
        LET np == NextPos(stack, r, 0, 0)
        IN  /\ req' = r
            /\ pos' = np
            /\ pc' = IF np = <<0, 0>> THEN "done" ELSE "run"
    /\ UNCHANGED <<pipeline, errorName, mounts, stack, res, err, auth, trace, fs, out>>

(***************************************************************************)
(* The handlers of the application: the docs endpoint, route.handler and   *)
(* the entries before it in an array-valued handler.                       *)
(***************************************************************************)
\* function (req, res) { res.json(options.api); }
DocsHandler ==
    /\ Running("docs")
    /\ Ran(0, "")
    /\ IF res.headersSent
       THEN res' = res /\ Forward(HeadersSentError)
       ELSE res' = Sent(res, res.statusCode, "") /\ End
    /\ UNCHANGED <<pipeline, errorName, mounts, stack, req, auth, fs, out>>

\* an application middleware either answers the request or calls next()
Respond ==
    IF res.headersSent
    THEN res' = res /\ Forward(HeadersSentError)
    ELSE res' = Sent(res, res.statusCode, "") /\ End

PreHandler ==
    /\ Running("pre")
    /\ Ran(0, "")
    /\ \/ Respond
       \/ res' = res /\ Continue(req)
    /\ UNCHANGED <<pipeline, errorName, mounts, stack, req, auth, fs, out>>

Handler ==
    /\ Running("handler")
    /\ Ran(0, "")
    /\ \/ Respond
       \/ res' = res /\ Continue(req)
    /\ UNCHANGED <<pipeline, errorName, mounts, stack, req, auth, fs, out>>

(***************************************************************************)
(* makeValidator: validateInput (the same in both versions).               *)
(***************************************************************************)
\* !value for accessor.get(req, parameter.name)
RawFalsy(parameter, r) ==
    CASE parameter.in = "path" -> r.id = ""
      [] parameter.in = "query" -> r.limit = ""
      [] parameter.in = "header" -> r.ct = <<>>
      [] parameter.in = "body" -> r.body = ""

\* accessor.set(req, parameter.name, newvalue); the header accessor's set is a no-op
Coerced(parameter, r) ==
    CASE parameter.in = "path" -> [r EXCEPT !.id = "new"]
      [] parameter.in = "query" -> [r EXCEPT !.limit = "new"]
      [] parameter.in = "header" -> r
      [] parameter.in = "body" -> [r EXCEPT !.body = "new"]

\* as ValidationStatus, with the content-type test ahead of the missing required value
ValidationStatusContentTypeFirst(parameter, falsy) ==
    IF ToLowerCase(parameter.name) = "content-type" THEN 415
    ELSE 400

\* err.status of the error validateInput sends
ValidationStatus(parameter, falsy) ==
    IF parameter.required /\ falsy THEN 400
    ELSE IF ToLowerCase(parameter.name) = "content-type" THEN 415
    ELSE 400

\* err.title; errname is error.name ("" when the error has none)
ValidationTitle(parameter, falsy, errname) ==
    IF parameter.required /\ falsy THEN "Missing Value for Required Header"
    ELSE IF ToLowerCase(parameter.name) = "content-type" THEN "Unsupported Media Type"
    ELSE IF errname # "" THEN errname
    ELSE "Bad Request"

ErrorNames == {"", "ValidationError"}

CurParameter == mounts[CurLayer.m].routes[CurLayer.r].validators[Cur.k]

ValidateInput ==
    /\ Running("validateInput")
    /\ LET parameter == CurParameter
           falsy == RawFalsy(parameter, req)
       IN  \/ \E errname \in ErrorNames :
                LET status == ValidationStatus(parameter, falsy)
                    title == ValidationTitle(parameter, falsy, errname)
                IN  /\ Ran(status, errname)
                    /\ req' = req
                    /\ IF res.headersSent
                       THEN /\ res' = [res EXCEPT !.statusCode = status]
                            /\ Forward(HeadersSentError)
                       ELSE res' = Sent(res, status, title) /\ End
           \/ /\ Ran(0, "")
              /\ req' = Coerced(parameter, req)
              /\ res' = res
              /\ Continue(req)
    /\ UNCHANGED <<pipeline, errorName, mounts, stack, auth, fs, out>>

(***************************************************************************)
(* The cross-route middleware of one resolved path.                        *)
(***************************************************************************)
\* error(httpStatusCode, title, description) of the newer version
Error(httpStatusCode, title) ==
    [status |-> httpStatusCode, title |-> title,
     name |-> IF errorName # "" THEN errorName ELSE "SwaggerizeExpressVmt", from |-> ""]

\* methods.join(', ').toUpperCase()
AllowHeader(methods) == UpperAll(Join([i \in 1..Len(methods) |-> <<methods[i]>>], ", "))

MethodNotListed(methods, r) == ~Contains(methods, ToLowerCase(r.method))

\* the older version answers 405 and goes on to next()
NotAllowedOlder ==
    /\ pipeline = "older"
    /\ Running("notAllowed")
    /\ req' = req
    /\ IF MethodNotListed(CurLayer.methods, req)
       THEN IF res.headersSent
            THEN Ran(0, "") /\ res' = res /\ Forward(HeadersSentError)
            ELSE /\ Ran(405, "")
                 /\ res' = [Sent(res, 405, "") EXCEPT !.allow = AllowHeader(CurLayer.methods)]
                 /\ Continue(req)
       ELSE Ran(0, "") /\ res' = res /\ Continue(req)
    /\ UNCHANGED <<pipeline, errorName, mounts, stack, auth, fs, out>>

\* as NotAllowedNewer, but checking the method on every traversal
NotAllowedNewerEveryPass ==
    /\ pipeline = "newer"
    /\ Running("notAllowed")
    /\ IF MethodNotListed(CurLayer.methods, req)
       THEN /\ req' = req
            /\ IF res.headersSent
               THEN Ran(0, "") /\ res' = res /\ Forward(HeadersSentError)
               ELSE /\ Ran(405, "")
                    /\ res' = [Sent(res, 405, "") EXCEPT !.allow = AllowHeader(CurLayer.methods)]
                    /\ Forward(Error(405, "Method Not Allowed"))
       ELSE /\ Ran(0, "")
            /\ req' = [req EXCEPT !.expressroutes = @ + 1]
            /\ res' = res
            /\ Continue(req)
    /\ UNCHANGED <<pipeline, errorName, mounts, stack, auth, fs, out>>

\* the newer version checks only while req._expressroutes is unset, and counts the pass
NotAllowedNewer ==
    /\ pipeline = "newer"
    /\ Running("notAllowed")
    /\ IF req.expressroutes = 0 /\ MethodNotListed(CurLayer.methods, req)
       THEN /\ req' = req
            /\ IF res.headersSent
               THEN Ran(0, "") /\ res' = res /\ Forward(HeadersSentError)
               ELSE /\ Ran(405, "")
                    /\ res' = [Sent(res, 405, "") EXCEPT !.allow = AllowHeader(CurLayer.methods)]
                    /\ Forward(Error(405, "Method Not Allowed"))
       ELSE /\ Ran(0, "")
            /\ req' = [req EXCEPT !.expressroutes = @ + 1]
            /\ res' = res
            /\ Continue(req)
    /\ UNCHANGED <<pipeline, errorName, mounts, stack, auth, fs, out>>

\* table[method] || []
MediaTypes(table, method) == IF method \in DOMAIN table THEN table[method] ELSE <<>>

\* produces[method] || consumes[method] || []  (an empty array is truthy)
AcceptMediaTypes(produces, consumes, method) ==
    IF method \in DOMAIN produces THEN produces[method] ELSE MediaTypes(consumes, method)

Mutating(method) == method \in {"patch", "post", "put"}

\* headers ? headers.split(', ') : []
SplitHeader(header) == IF header = <<>> THEN <<>> ELSE SplitOn(header, ", ")

\* some header value includes some declared media type
Validated(headers, mediaTypes) ==
    \E i \in 1..Len(headers) : \E j \in 1..Len(mediaTypes) : Includes(headers[i], mediaTypes[j])

\* the older version's test: header && header !== '*/*' && mediaTypes.indexOf(header) === -1
RefusedOlder(header, mediaTypes) ==
    header # <<>> /\ header # <<"*/*">> /\ ~Contains(mediaTypes, header)

\* the newer version's test: headers.indexOf('*/*') === -1 and nothing validated
RefusedNewer(header, mediaTypes) ==
    /\ ~Contains(SplitHeader(header), <<"*/*">>)
    /\ ~Validated(SplitHeader(header), mediaTypes)

ValidateContentTypeHeaderOlder ==
    /\ pipeline = "older"
    /\ Running("validateContentTypeHeader")
    /\ req' = req
    /\ LET method == ToLowerCase(req.method)
       IN  IF Mutating(method) /\ RefusedOlder(req.ct, MediaTypes(CurLayer.consumes, method))
           THEN /\ Ran(415, "")
                /\ IF res.headersSent
                   THEN res' = [res EXCEPT !.statusCode = 415] /\ Forward(HeadersSentError)
                   ELSE res' = Sent(res, 415, "") /\ End
           ELSE Ran(0, "") /\ res' = res /\ Continue(req)
    /\ UNCHANGED <<pipeline, errorName, mounts, stack, auth, fs, out>>

ValidateContentTypeHeaderNewer ==
    /\ pipeline = "newer"
    /\ Running("validateContentTypeHeader")
    /\ req' = req
    /\ res' = res
    /\ LET method == ToLowerCase(req.method)
       IN  IF /\ Mutating(method)
              /\ RefusedNewer(req.ct, MediaTypes(CurLayer.consumes, method))
              /\ req.expressroutes = 0
           THEN Ran(415, "") /\ Forward(Error(415, "Unsupported Content-Type header"))
           ELSE Ran(0, "") /\ Continue(req)
    /\ UNCHANGED <<pipeline, errorName, mounts, stack, auth, fs, out>>

ValidateAcceptHeaderOlder ==
    /\ pipeline = "older"
    /\ Running("validateAcceptHeader")
    /\ req' = req
    /\ LET method == ToLowerCase(req.method)
       IN  IF RefusedOlder(req.accept,
                           AcceptMediaTypes(CurLayer.produces, CurLayer.consumes, method))
           THEN /\ Ran(406, "")
                /\ IF res.headersSent
                   THEN res' = [res EXCEPT !.statusCode = 406] /\ Forward(HeadersSentError)
                   ELSE res' = Sent(res, 406, "") /\ End
           ELSE Ran(0, "") /\ res' = res /\ Continue(req)
    /\ UNCHANGED <<pipeline, errorName, mounts, stack, auth, fs, out>>

ValidateAcceptHeaderNewer ==
    /\ pipeline = "newer"
    /\ Running("validateAcceptHeader")
    /\ req' = req
    /\ res' = res
    /\ LET method == ToLowerCase(req.method)
       IN  IF RefusedNewer(req.accept,
                           AcceptMediaTypes(CurLayer.produces, CurLayer.consumes, method))
           THEN Ran(406, "") /\ Forward(Error(406, "Unsupported Accept header"))
           ELSE Ran(0, "") /\ Continue(req)
    /\ UNCHANGED <<pipeline, errorName, mounts, stack, auth, fs, out>>

\* routeFilter(route): every parameter level becomes ":x", empty levels go
RouteFilter(route) ==
    LET levels == Segments(route)
    IN  Flatten([i \in 1..Len(levels) |->
            IF IsParam(levels[i][1]) THEN <<"/", ":x">> ELSE <<"/">> \o levels[i]])

\* Object.keys(swaggerDefinitions.paths): the api document's paths
ApiPaths(options) == Dedup([r \in 1..Len(options.routes) |-> options.routes[r].path])

\* paths[path][method]: the operation object, named here by its path and method;
\* <<>> is undefined
Operation(options, path, method) ==
    IF \E r \in 1..Len(options.routes) :
            options.routes[r].path = path /\ options.routes[r].method = method
    THEN <<path, <<method>>>> ELSE <<>>

\* the value appendSwaggerDefinitionsToReq gives req.swaggerDefinition
SwaggerDefinitionFor(routePath, options, method) ==
    LET route == ReplaceFirst(RouteFilter(routePath), options.basePath, <<>>)
        key == SelectSeq(ApiPaths(options), LAMBDA path : RouteFilter(path) = route)
    IN  IF key = <<>> THEN <<>> ELSE Operation(options, key[1], method)

AppendSwaggerDefinitionsToReq ==
    /\ Running("appendSwaggerDefinitionsToReq")
    /\ Ran(0, "")
    /\ req' = [req EXCEPT !.swaggerDefinition =
                  SwaggerDefinitionFor(CurLayer.path, mounts[CurLayer.m], ToLowerCase(req.method))]
    /\ res' = res
    /\ Continue(req)
    /\ UNCHANGED <<pipeline, errorName, mounts, stack, auth, fs, out>>

(***************************************************************************)
(* authorizeFor: authorize, passed, done, run by async.some.               *)
(***************************************************************************)
\* new Error('Unauthorized.'), pushed for a scheme without an authorize function
Unauthorized(scheme) ==
    [status |-> 0, title |-> "Unauthorized.", name |-> "Error", from |-> scheme.name]

\* the error an authorize function hands to its callback
Denied(scheme) ==
    [status |-> 0, title |-> "Denied", name |-> "Error", from |-> scheme.name]

CurSchemes == mounts[CurLayer.m].routes[CurLayer.r].security.schemes

\* as Passed, but a scheme without an authorize function passes
PassedWithoutCallback(schemes, i, ok, st) ==
    IF st.result = "ok" THEN st
    ELSE IF schemes[i].authorize = "none" THEN [st EXCEPT !.result = "ok"]
    ELSE LET called == [st EXCEPT !.scopes = schemes[i].scopes, !.invoked = Append(@, i)]
         IN  IF schemes[i].authorize = "async" THEN [called EXCEPT !.pending = @ \cup {i}]
             ELSE IF ok[i] THEN [called EXCEPT !.result = "ok", !.reported = @ \cup {<<i, TRUE>>}]
             ELSE [called EXCEPT !.errors = Append(@, Denied(schemes[i])),
                                 !.reported = @ \cup {<<i, FALSE>>}]

\* passed(type, pass) for scheme i, as async.some calls it: not at all once a
\* scheme has passed; ok[i] is what a synchronous authorize function reports
Passed(schemes, i, ok, st) ==
    IF st.result = "ok" THEN st
    ELSE IF schemes[i].authorize = "none"
    THEN [st EXCEPT !.errors = Append(@, Unauthorized(schemes[i]))]
    ELSE LET called == [st EXCEPT !.scopes = schemes[i].scopes, !.invoked = Append(@, i)]
         IN  IF schemes[i].authorize = "async" THEN [called EXCEPT !.pending = @ \cup {i}]
             ELSE IF ok[i] THEN [called EXCEPT !.result = "ok", !.reported = @ \cup {<<i, TRUE>>}]
             ELSE [called EXCEPT !.errors = Append(@, Denied(schemes[i])),
                                 !.reported = @ \cup {<<i, FALSE>>}]

\* async.some(Object.keys(security), passed, done), up to the first wait
RECURSIVE Some(_, _, _, _)
Some(schemes, i, ok, st) ==
    IF i > Len(schemes)
    THEN IF st.result = "" /\ st.pending = {} THEN [st EXCEPT !.result = "fail"] ELSE st
    ELSE Some(schemes, i + 1, ok, Passed(schemes, i, ok, st))

\* as Done, but handing next the error pushed last
DoneLastError(st) ==
    CASE st.result = "ok" ->
            res' = res /\ Continue(req)
      [] st.result = "fail" /\ st.errors # <<>> ->
            res' = [res EXCEPT !.statusCode = 401] /\ Forward(st.errors[Len(st.errors)])
      [] st.result = "fail" /\ st.errors = <<>> ->
            res' = [res EXCEPT !.statusCode = 401] /\ Continue(req)
      [] OTHER ->
            res' = res /\ pc' = "auth" /\ pos' = pos /\ err' = err

\* done(success): next() on success; res.statusCode = 401 and next(errors.shift())
\* otherwise, which is next() when errors is empty
Done(st) ==
    CASE st.result = "ok" ->
            res' = res /\ Continue(req)
      [] st.result = "fail" /\ st.errors # <<>> ->
            res' = [res EXCEPT !.statusCode = 401] /\ Forward(st.errors[1])
      [] st.result = "fail" /\ st.errors = <<>> ->
            res' = [res EXCEPT !.statusCode = 401] /\ Continue(req)
      [] OTHER ->
            res' = res /\ pc' = "auth" /\ pos' = pos /\ err' = err

\* the closure's state after done(): errors.shift() took the first error; `called`
\* records how done() called next
Shifted(st) ==
    CASE st.result = "ok" -> [st EXCEPT !.called = "next()"]
      [] st.result = "fail" /\ st.errors # <<>> ->
            [st EXCEPT !.errors = Tail(@), !.called = "next(error)"]
      [] st.result = "fail" /\ st.errors = <<>> -> [st EXCEPT !.called = "next(undefined)"]
      [] OTHER -> st

Authorize ==
    /\ Running("authorize")
    /\ \E ok \in [1..Len(CurSchemes) -> BOOLEAN] :
        LET st == Some(CurSchemes, 1, ok, NoAuth)
        IN  /\ Ran(IF st.result = "fail" THEN 401 ELSE 0, "")
            /\ req' = [req EXCEPT !.requiredScopes =
                          IF st.invoked = <<>> THEN @ ELSE st.scopes]
            /\ auth' = [Shifted(st) EXCEPT !.at = Len(trace) + 1]
            /\ Done(st)
    /\ UNCHANGED <<pipeline, errorName, mounts, stack, fs, out>>

\* an asynchronous authorize function calls back, with an error or without
AuthorizeCallback ==
    /\ pc \in {"auth", "run", "done"}
    /\ auth.pending # {}
    /\ \E i \in auth.pending : \E ok \in BOOLEAN :
        LET schemes == mounts[stack[trace[auth.at].l].m].routes[stack[trace[auth.at].l].r]
                           .security.schemes
            left == auth.pending \ {i}
            st1 == IF ok THEN auth ELSE [auth EXCEPT !.errors = Append(@, Denied(schemes[i]))]
            st2 == [st1 EXCEPT !.pending = left, !.reported = @ \cup {<<i, ok>>},
                               !.result = IF auth.result # "" THEN @
                                          ELSE IF ok THEN "ok"
                                          ELSE IF left = {} THEN "fail" ELSE ""]
        IN  IF auth.result # ""
            THEN /\ auth' = st2
                 /\ UNCHANGED <<res, pc, pos, err, trace>>
            ELSE /\ auth' = Shifted(st2)
                 /\ trace' = [trace EXCEPT ![auth.at].fail =
                                  IF st2.result = "fail" THEN 401 ELSE 0]
                 /\ Done(st2)
    /\ UNCHANGED <<pipeline, errorName, mounts, stack, req, fs, out>>

(***************************************************************************)
(* Mounting: swaggerize(options) mounted on an application calls           *)
(* expressroutes(parent._router, options).                                 *)
(***************************************************************************)
Options(errornames, basePaths) ==
    [routes : RouteLists, errorname : errornames, basePath : basePaths]

Mount(options) ==
    /\ pc = "idle"
    /\ pc' = "idle"
    /\ errorName' = IF pipeline = "newer" /\ options.errorname # ""
                    THEN options.errorname ELSE errorName
    /\ mounts' = Append(mounts, Mounted(options))
    /\ stack' = stack \o Expressroutes(pipeline, Len(mounts) + 1, options)
    /\ UNCHANGED <<pipeline, req, res, pos, err, auth, trace, fs, out>>

NoRequest ==
    [method |-> "", path |-> <<>>, ct |-> <<>>, accept |-> <<>>, body |-> "", id |-> "",
     limit |-> "", expressroutes |-> 0, swaggerDefinition |-> <<>>, requiredScopes |-> ""]

Init ==
    /\ pipeline \in {"older", "newer"}
    /\ errorName = ""
    /\ mounts = <<>>
    /\ stack = <<>>
    /\ req = NoRequest
    /\ res = NewResponse
    /\ pc = "idle"
    /\ pos = <<0, 0>>
    /\ err = NoError
    /\ auth = NoAuth
    /\ trace = <<>>
    /\ fs = <<>>
    /\ out = <<>>

\* the request is over: the server waits for the next one
Finish ==
    /\ pc = "done"
    /\ pc' = "idle"
    /\ req' = NoRequest
    /\ res' = NewResponse
    /\ pos' = <<0, 0>>
    /\ err' = NoError
    /\ auth' = NoAuth
    /\ trace' = <<>>
    /\ UNCHANGED <<pipeline, errorName, mounts, stack, fs, out>>

Serve ==
    \/ NewRequest
    \/ Finish
    \/ DocsHandler
    \/ Authorize
    \/ AuthorizeCallback
    \/ PreHandler
    \/ ValidateInput
    \/ Handler
    \/ AppendSwaggerDefinitionsToReq
    \/ NotAllowedOlder
    \/ NotAllowedNewer
    \/ ValidateContentTypeHeaderOlder
    \/ ValidateContentTypeHeaderNewer
    \/ ValidateAcceptHeaderOlder
    \/ ValidateAcceptHeaderNewer

\* one application, mounted once, serving requests
MountOnce == mounts = <<>> /\ \E options \in Options({""}, {<<>>, <<"/", "v1">>}) : Mount(options)

Next == MountOnce \/ Serve

Spec == Init /\ [][Next]_vars

(***************************************************************************)
(* bin/lib/create.js: the scaffolding script.  The file system is a        *)
(* function from the paths that exist to [kind, content]; a path is a      *)
(* token sequence such as <<"handlers", "/", "pets", ".js">>.              *)
(***************************************************************************)
MaxApis == 2
MaxModels == 2
MaxRuns == 2

HandlersPath == <<"handlers">>
ModelsPath == <<"models">>

Dir == [kind |-> "dir", content |-> <<>>]
File(content) == [kind |-> "file", content |-> content]

\* path.join(a, b)
PathJoin(a, b) == IF b = <<>> THEN a ELSE a \o <<"/">> \o b

\* the directory a path lies in
Dirname(p) ==
    LET slashes == {i \in 1..Len(p) : p[i] = "/"}
    IN  IF slashes = {} THEN <<>>
        ELSE SubSeq(p, 1, (CHOOSE i \in slashes : \A j \in slashes : j <= i) - 1)

ExistsSync(f, p) == p \in DOMAIN f

\* what stops fs.mkdirSync(p) and fs.writeFileSync(p, data): "" when nothing does
Errno(f, p) ==
    IF ~ExistsSync(f, Dirname(p)) THEN "ENOENT"
    ELSE IF f[Dirname(p)].kind # "dir" THEN "ENOTDIR"
    ELSE ""

\* a run in progress: the file system, the warnings printed, the error thrown
Started(f) == [fs |-> f, warned |-> <<>>, thrown |-> ""]

Warn(st, p) == [st EXCEPT !.warned = Append(@, p)]

MkdirSync(st, p) ==
    IF Errno(st.fs, p) # "" THEN [st EXCEPT !.thrown = Errno(st.fs, p)]
    ELSE [st EXCEPT !.fs = (p :> Dir) @@ @]

WriteFileSync(st, p, content) ==
    IF Errno(st.fs, p) # "" THEN [st EXCEPT !.thrown = Errno(st.fs, p)]
    ELSE [st EXCEPT !.fs = (p :> File(content)) @@ @]

\* element.indexOf('{') < 0, on the path elements in use
HasBrace(element) == \E i \in 1..Len(element) : element[i] \in {"{id}"}

\* the elements of api.path that are not empty and hold no '{'
RECURSIVE Pathnames(_)
Pathnames(elements) ==
    IF elements = <<>> THEN <<>>
    ELSE IF elements[1] # <<>> /\ ~HasBrace(elements[1])
         THEN <<elements[1]>> \o Pathnames(Tail(elements))
         ELSE Pathnames(Tail(elements))

\* route.pathname
Pathname(apiPath) == Join(Pathnames(SplitOn(apiPath, "/")), "/")

\* route.methods of one api
MethodsOf(api) ==
    [o \in 1..Len(api.operations) |->
        [method |-> ToLowerCase(api.operations[o].method),
         name |-> api.operations[o].nickname,
         output |-> api.operations[o].type]]

\* the routes object after the first k apis, its keys in insertion order
RECURSIVE GroupRoutes(_, _)
GroupRoutes(apis, k) ==
    IF k = 0 THEN <<>>
    ELSE LET routes == GroupRoutes(apis, k - 1)
             route == [path |-> apis[k].path, pathname |-> Pathname(apis[k].path),
                       methods |-> MethodsOf(apis[k])]
             same == {i \in 1..Len(routes) : routes[i].pathname = route.pathname}
         IN  IF same # {}
             THEN [i \in 1..Len(routes) |->
                     IF i \in same THEN [routes[i] EXCEPT !.methods = @ \o route.methods]
                     ELSE routes[i]]
             ELSE Append(routes, route)

\* the body of Object.keys(routes).forEach for one route
WriteHandler(st, route) ==
    LET pathnames == SplitOn(route.pathname, "/")
        n == Len(pathnames)
        dir == PathJoin(HandlersPath, Join(SubSeq(pathnames, 1, n - 1), "/"))
        made == IF n > 1
                THEN IF ExistsSync(st.fs, dir) THEN Warn(st, dir) ELSE MkdirSync(st, dir)
                ELSE st
        file == IF n > 1 THEN PathJoin(HandlersPath, Join(pathnames, "/") \o <<".js">>)
                ELSE PathJoin(HandlersPath, pathnames[n] \o <<".js">>)
    IN  IF made.thrown # "" THEN made
        ELSE IF ExistsSync(made.fs, file) THEN Warn(made, file)
        ELSE WriteFileSync(made, file, <<route>>)

\* the loop over the routes: an exception ends it
RECURSIVE WriteHandlers(_, _)
WriteHandlers(st, routes) ==
    IF routes = <<>> \/ st.thrown # "" THEN st
    ELSE WriteHandlers(WriteHandler(st, routes[1]), Tail(routes))

\* the body of Object.keys(models).forEach for one model
WriteModel(st, model) ==
    LET fileName == PathJoin(ModelsPath, <<ToLowerCase(model.name), ".js">>)
    IN  IF ~ExistsSync(st.fs, fileName) THEN WriteFileSync(st, fileName, <<model>>)
        ELSE Warn(st, fileName)

RECURSIVE WriteModels(_, _)
WriteModels(st, models) ==
    IF models = <<>> \/ st.thrown # "" THEN st
    ELSE WriteModels(WriteModel(st, models[1]), Tail(models))

\* the api documents' apis: {path, operations: [{method, nickname, type}]}
Op(method, nickname) == [method |-> method, nickname |-> nickname, type |-> "Pet"]

ApiUniverse ==
    << [path |-> <<"/", "pets">>, operations |-> <<Op("GET", "findPets")>>],
       [path |-> <<"/", "pets", "/", "{id}">>,
        operations |-> <<Op("GET", "findPet"), Op("DELETE", "deletePet")>>],
       [path |-> <<"/", "pets", "/", "mine">>, operations |-> <<Op("GET", "myPets")>>],
       [path |-> <<"/", "a", "/", "b", "/", "c">>, operations |-> <<Op("POST", "addC")>>],
       [path |-> <<"/">>, operations |-> <<Op("GET", "root")>>] >>

ApiLists ==
    UNION {{[i \in 1..n |-> ApiUniverse[c[i]]] : c \in [1..n -> 1..Len(ApiUniverse)]} :
            n \in 0..MaxApis}

\* the document's models, in key order
ModelUniverse ==
    << [name |-> "Pet", id |-> "Pet"], [name |-> "pet", id |-> "pet"],
       [name |-> "Error", id |-> "Error"] >>

ModelLists ==
    {ms \in UNION {{[i \in 1..n |-> ModelUniverse[c[i]]] : c \in [1..n -> 1..Len(ModelUniverse)]} :
                    n \in 0..MaxModels} :
        \A i, j \in 1..Len(ms) : ms[i].name = ms[j].name => i = j}

\* the file systems a run starts from: both target directories exist
UserFile == File(<<[path |-> <<>>, pathname |-> <<>>, methods |-> <<>>]>>)

BaseFileSystem == (HandlersPath :> Dir) @@ (ModelsPath :> Dir)

StartingFileSystems ==
    { BaseFileSystem,
      (<<"handlers", "/", "pets", ".js">> :> UserFile) @@ BaseFileSystem,
      (<<"handlers", "/", "pets">> :> Dir)
          @@ (<<"handlers", "/", "pets", "/", "mine", ".js">> :> UserFile) @@ BaseFileSystem,
      (<<"handlers", "/", "pets">> :> UserFile) @@ BaseFileSystem,
      (<<"handlers", "/", "a">> :> Dir) @@ (<<"handlers", "/", "a", "/", "b">> :> Dir)
          @@ BaseFileSystem,
      (<<"models", "/", "pet", ".js">> :> UserFile) @@ BaseFileSystem }

RunRecord(op, input, st) ==
    [op |-> op, input |-> input, before |-> fs, warned |-> st.warned, thrown |-> st.thrown]

CreateHandlers(apis) ==
    LET st == WriteHandlers(Started(fs), GroupRoutes(apis, Len(apis)))
    IN  /\ Len(out) < MaxRuns
        /\ fs' = st.fs
        /\ out' = Append(out, RunRecord("createHandlers", apis, st))
        /\ UNCHANGED <<pipeline, errorName, mounts, stack, req, res, pc, pos, err, auth, trace>>

CreateModels(models) ==
    LET st == WriteModels(Started(fs), models)
    IN  /\ Len(out) < MaxRuns
        /\ fs' = st.fs
        /\ out' = Append(out, RunRecord("createModels", models, st))
        /\ UNCHANGED <<pipeline, errorName, mounts, stack, req, res, pc, pos, err, auth, trace>>

InitCreate ==
    /\ pipeline = "newer"
    /\ errorName = ""
    /\ mounts = <<>>
    /\ stack = <<>>
    /\ req = NoRequest
    /\ res = NewResponse
    /\ pc = "idle"
    /\ pos = <<0, 0>>
    /\ err = NoError
    /\ auth = NoAuth
    /\ trace = <<>>
    /\ fs \in StartingFileSystems
    /\ out = <<>>

NextCreate ==
    \/ \E apis \in ApiLists : CreateHandlers(apis)
    \/ \E models \in ModelLists : CreateModels(models)

SpecCreate == InitCreate /\ [][NextCreate]_vars

\* registration alone: up to MaxMounts applications mounted on one router
MountMany ==
    /\ Len(mounts) < MaxMounts
    /\ \E options \in Options({""}, {<<>>}) : Mount(options)

NextRegister == MountMany

SpecRegister == Init /\ [][NextRegister]_vars

\* applications that give an errorname, or none, mounted on one router between requests
NamedRouteLists == {<<RouteUniverse[1]>>, <<RouteUniverse[2]>>}

MountNamed ==
    /\ Len(mounts) < MaxMounts
    /\ \E options \in [routes : NamedRouteLists, errorname : {"", "A", "B"}, basePath : {<<>>}] :
            Mount(options)

NextRemount == MountNamed \/ Serve

SpecRemount == Init /\ [][NextRemount]_vars

(***************************************************************************)
(* Properties.                                                             *)
(***************************************************************************)
\* the status the request ends with: that of the response sent, else that of the
\* error forwarded to the error handling
EndStatus == IF res.headersSent THEN res.sentStatus ELSE err.status

ReachedLayer(l) == \E i \in 1..Len(trace) : trace[i].l = l

ReachedStep(l, name) == \E i \in 1..Len(trace) : trace[i].l = l /\ trace[i].name = name

\* the routes registered under the path of use layer l
RoutesAt(l) ==
    LET options == mounts[stack[l].m].given
    IN  {options.routes[r] : r \in {q \in 1..Len(options.routes) :
            BuildRoutePath(Mountpath(BasePath(options.basePath)), options.routes[q].path)
                = stack[l].path}}

MethodsAt(l) == {route.method : route \in RoutesAt(l)}

ConsumesAt(l, method) ==
    UNION {Range(route.consumes) : route \in {x \in RoutesAt(l) : x.method = method}}

ProducesAt(l, method) ==
    UNION {Range(route.produces) : route \in {x \in RoutesAt(l) : x.method = method}}

\* a header matches a set of media types when one of its comma-separated values
\* contains one of them
HeaderMatches(header, types) ==
    \E value \in Range(SplitOn(header, ", ")) : \E type \in types : Includes(value, type)

UseLayers == {l \in 1..Len(stack) : stack[l].kind = "use"}

\* C1: a PUT, POST or PATCH request that reaches the Content-Type step of the cross-route
\* middleware of a registered path with a Content-Type that is non-empty, not '*/*' and
\* matches none of the consumes entries of that path and method ends with status 415;
\* the Content-Type step produces no 415 for a GET request.
C1_UnsupportedContentTypeEnds415 ==
    pc = "done" =>
        \A l \in UseLayers :
            /\ ( /\ ReachedStep(l, "validateContentTypeHeader")
                 /\ req.method \in {"PUT", "POST", "PATCH"}
                 /\ req.ct # <<>>
                 /\ req.ct # <<"*/*">>
                 /\ ~HeaderMatches(req.ct, ConsumesAt(l, ToLowerCase(req.method))) )
               => EndStatus = 415
            /\ req.method = "GET" =>
                 \A i \in 1..Len(trace) :
                    trace[i].name = "validateContentTypeHeader" => trace[i].fail # 415

\* C2: when the not-allowed middleware of a registered path runs for a request whose
\* method is not registered for that path, the response has status 405 and its Allow
\* header lists exactly the methods registered for that path, in upper case.
C2_NotAllowed405WithAllow ==
    (trace # <<>> /\ trace[Len(trace)].name = "notAllowed"
        /\ ToLowerCase(req.method) \notin MethodsAt(trace[Len(trace)].l))
    => /\ res.headersSent
       /\ res.sentStatus = 405
       /\ Range(SplitOn(res.allow, ", "))
            = {<<ToUpperCase(m)>> : m \in MethodsAt(trace[Len(trace)].l)}

\* C3: a step that reports a failure (405, 415, 406, 400, 401) ends the request with a
\* response or a forwarded error, and no later step runs for the request.
C3_FailureIsTerminal ==
    /\ \A i \in 1..(Len(trace) - 1) : trace[i].fail = 0
    /\ (trace # <<>> /\ trace[Len(trace)].fail # 0)
        => pc = "done" /\ (res.headersSent \/ err # NoError)

\* the security requirement the authorize middleware that ran last was built for
AuthSchemes ==
    mounts[stack[trace[auth.at].l].m].routes[stack[trace[auth.at].l].r].security.schemes

SuccessReported == \E report \in auth.reported : report[2]

\* every scheme has failed: it has no authorize function, or its callback got an error
EverySchemeFailed ==
    \A i \in 1..Len(AuthSchemes) :
        AuthSchemes[i].authorize = "none" \/ <<i, FALSE>> \in auth.reported

\* C4: with several schemes, authorize calls next without an error exactly when some
\* scheme's authorize callback reported success (a scheme without a callback is a
\* failure); when every scheme failed the status is 401, the error is forwarded and no
\* later step of the chain runs.
C4_AuthorizeIsOr ==
    (auth.at # 0 /\ Len(AuthSchemes) >= 2) =>
        /\ auth.called = "next()" <=> SuccessReported
        /\ EverySchemeFailed =>
            /\ auth.called = "next(error)"
            /\ res.statusCode = 401
            /\ pc = "done"
            /\ err # NoError
            /\ Len(trace) = auth.at

\* C4's case: the request proceeds though one scheme of the requirement has no callback
C4_Witness ==
    /\ auth.at # 0
    /\ Len(AuthSchemes) >= 2
    /\ \E i \in 1..Len(AuthSchemes) : AuthSchemes[i].authorize = "none"
    /\ auth.called = "next()"
    /\ Len(trace) > auth.at

LastStep == trace[Len(trace)]

ValidateInputFailed ==
    trace # <<>> /\ LastStep.name = "validateInput" /\ LastStep.fail # 0

FailedParameter == mounts[stack[LastStep.l].m].routes[stack[LastStep.l].r].validators[LastStep.k]

NotRewritten(parameter) ==
    CASE parameter.in = "path" -> req.id # "new"
      [] parameter.in = "query" -> req.limit # "new"
      [] parameter.in = "body" -> req.body # "new"
      [] OTHER -> TRUE

\* validateInput answered with this status and title, did not call next and left the
\* value alone
Answered(status, title) ==
    /\ res.headersSent
    /\ res.sentStatus = status
    /\ res.title = title
    /\ pc = "done"
    /\ err = NoError
    /\ NotRewritten(FailedParameter)

\* C5 (amended): a failed validation is answered with status 400 and, as title, the
\* error's name, or "Bad Request" when it has none; a parameter named content-type (in
\* any case) gives 415 "Unsupported Media Type"; a required parameter whose raw value is
\* falsy gives, before both, 400 "Missing Value for Required Header"; next is not called
\* and the value is not rewritten.
C5_ValidationFailureResponse ==
    ValidateInputFailed =>
        IF FailedParameter.required /\ RawFalsy(FailedParameter, req)
        THEN Answered(400, "Missing Value for Required Header")
        ELSE IF FailedParameter.name \in {"content-type", "Content-Type", "CONTENT-TYPE"}
        THEN Answered(415, "Unsupported Media Type")
        ELSE Answered(400, IF LastStep.info # "" THEN LastStep.info ELSE "Bad Request")

\* C5's case: a validator reported an error that has a name, for an ordinary parameter
C5_Witness ==
    /\ ValidateInputFailed
    /\ LastStep.info = "ValidationError"
    /\ FailedParameter.name = "limit"
    /\ res.title = "ValidationError"

\* C5 as stated: the title of an ordinary failure is always "Bad Request"
C5_TitleIsBadRequest ==
    ValidateInputFailed =>
        IF FailedParameter.required /\ RawFalsy(FailedParameter, req)
        THEN Answered(400, "Missing Value for Required Header")
        ELSE IF FailedParameter.name \in {"content-type", "Content-Type", "CONTENT-TYPE"}
        THEN res.sentStatus = 415 /\ pc = "done" /\ err = NoError
        ELSE Answered(400, "Bad Request")

\* the media types the Accept step is to compare with: produces of the path and method,
\* consumes when produces has no entry for the method
DeclaredForAccept(l, method) ==
    IF method \in MethodsAt(l) THEN ProducesAt(l, method) ELSE ConsumesAt(l, method)

\* C6: a request that reaches the Accept step of a registered path with an Accept header
\* that is non-empty, has no '*/*' value and matches none of the declared media types
\* ends with status 406; a request without Accept header, or with '*/*', is never
\* rejected by the step.
C6_UnacceptableEnds406 ==
    pc = "done" =>
        \A l \in UseLayers :
            ReachedStep(l, "validateAcceptHeader") =>
                /\ ( /\ req.accept # <<>>
                     /\ ~Contains(SplitOn(req.accept, ", "), <<"*/*">>)
                     /\ ~HeaderMatches(req.accept, DeclaredForAccept(l, ToLowerCase(req.method))) )
                   => EndStatus = 406
                /\ req.accept \in {<<>>, <<"*/*">>} =>
                     \A i \in 1..Len(trace) :
                        trace[i].name = "validateAcceptHeader" => trace[i].fail # 406

\* C10: in the newer version, when a validator of a route runs, req.swaggerDefinition
\* already holds the api document's entry for the route's path and method.
C10_DefinitionBeforeValidation ==
    pipeline = "newer" =>
        \A i \in 1..Len(trace) :
            trace[i].name = "validateInput" =>
                LET route == mounts[stack[trace[i].l].m].given.routes[stack[trace[i].l].r]
                IN  trace[i].def = <<route.path, <<route.method>>>>

LayersOf(m, kind) == {l \in 1..Len(stack) : stack[l].m = m /\ stack[l].kind = kind}

ResolvedPaths(options) ==
    {BuildRoutePath(Mountpath(BasePath(options.basePath)), options.routes[r].path) :
        r \in 1..Len(options.routes)}

\* C7: each expressroutes call registers one method handler per route and one
\* cross-route middleware group per distinct resolved path, every route before any group.
C7_OneHandlerPerRouteOneGroupPerPath ==
    \A m \in 1..Len(mounts) :
        LET options == mounts[m].given
        IN  /\ Cardinality(LayersOf(m, "route")) = Len(options.routes)
            /\ \A r \in 1..Len(options.routes) :
                \E l \in LayersOf(m, "route") :
                    stack[l].r = r /\ stack[l].method = options.routes[r].method
            /\ Cardinality(LayersOf(m, "use")) = Cardinality(ResolvedPaths(options))
            /\ \A path \in ResolvedPaths(options) :
                \E l \in LayersOf(m, "use") : stack[l].path = path
            /\ \A l1 \in LayersOf(m, "route") : \A l2 \in LayersOf(m, "use") : l1 < l2

\* C7's case: two routes that resolve to one path have been registered
C7_Witness ==
    \E m \in 1..Len(mounts) :
        /\ Len(mounts[m].given.routes) = 2
        /\ Cardinality(ResolvedPaths(mounts[m].given)) = 1
        /\ Cardinality(LayersOf(m, "route")) = 2
        /\ Cardinality(LayersOf(m, "use")) = 1

\* C9: an error the newer version raises (405, 415, 406) is named after the errorname
\* of the mount that registered the middleware raising it, 'SwaggerizeExpressVmt' when
\* that mount gave none.
C9_ErrorNamedAfterItsMount ==
    (pipeline = "newer" /\ pc = "done" /\ err.status \in {405, 415, 406}) =>
        err.name = IF mounts[stack[pos[1]].m].errorname # ""
                   THEN mounts[stack[pos[1]].m].errorname ELSE "SwaggerizeExpressVmt"

\* the file system a run of the scaffolding script left
After(k) == IF k = Len(out) THEN fs ELSE out[k + 1].before

NormalizedPathnames(apis) == {Pathname(apis[i].path) : i \in 1..Len(apis)}

HandlerFile(pathname) == PathJoin(HandlersPath, pathname \o <<".js">>)

\* the methods of every operation whose path normalizes to pathname, in input order
RECURSIVE GroupedMethods(_, _)
GroupedMethods(apis, pathname) ==
    IF apis = <<>> THEN <<>>
    ELSE (IF Pathname(apis[1].path) = pathname THEN MethodsOf(apis[1]) ELSE <<>>)
            \o GroupedMethods(Tail(apis), pathname)

NothingOverwritten(k) ==
    \A p \in DOMAIN out[k].before :
        out[k].before[p].kind = "file" => (p \in DOMAIN After(k) /\ After(k)[p] = out[k].before[p])

\* C8: createHandlers writes one handler file per normalized pathname, its route
\* carrying the methods of every operation of that pathname in input order, and no
\* file that existed before a run of createHandlers or createModels is changed by it.
C8_OneFilePerPathnameNothingOverwritten ==
    \A k \in 1..Len(out) :
        /\ NothingOverwritten(k)
        /\ out[k].op = "createHandlers" =>
            \A pathname \in NormalizedPathnames(out[k].input) :
                /\ HandlerFile(pathname) \in DOMAIN After(k)
                /\ After(k)[HandlerFile(pathname)].kind = "file"
                /\ HandlerFile(pathname) \notin DOMAIN out[k].before =>
                    After(k)[HandlerFile(pathname)].content[1].methods
                        = GroupedMethods(out[k].input, pathname)

\* the runs of the not-allowed middleware for the request in flight
NotAllowedRuns == {i \in 1..Len(trace) : trace[i].name = "notAllowed"}

\* the runs that passed the request on
NotAllowedPasses == {i \in NotAllowedRuns : trace[i].fail = 0}

Unregistered(i) == ToLowerCase(req.method) \notin MethodsAt(trace[i].l)

\* the counter counts the passes; a 405 comes only from a run no pass preceded, for a
\* method not registered, and every such run gives it
CounterCountsPasses ==
    pipeline = "newer" =>
        /\ req.expressroutes = Cardinality(NotAllowedPasses)
        /\ \A i \in NotAllowedRuns :
            trace[i].fail = 405 <=>
                (Unregistered(i) /\ \A j \in NotAllowedPasses : j > i)

\* while a request is served the counter stays or grows by one
CounterStep ==
    (pipeline = "newer" /\ pc # "idle" /\ pc' # "idle") =>
        /\ req'.expressroutes \in {req.expressroutes, req.expressroutes + 1}
        /\ req'.expressroutes # req.expressroutes =>
            (Len(trace') = Len(trace) + 1 /\ trace'[Len(trace')].name = "notAllowed")

\* C11: in the newer version req._expressroutes is unset (0 here) until the request first
\* passes a not-allowed check, grows by one with every pass and never decreases; the 405
\* is given only by a traversal that finds the counter unset, and every such traversal
\* with a method that is not registered gives it.
C11_PassCounter == []CounterCountsPasses /\ [][CounterStep]_vars

\* C11's case: a second group was traversed with the counter set, for a method that is
\* not registered for its path, and let the request pass
C11_Witness ==
    /\ pipeline = "newer"
    /\ req.expressroutes = 2
    /\ \E i \in NotAllowedPasses : Unregistered(i)

RouteLayers == {l \in 1..Len(stack) : stack[l].kind = "route"}

\* the route, as derived, that route layer l was registered for
RouteAt(l) == mounts[stack[l].m].given.routes[stack[l].r]

\* the chain the claim describes for a route
DescribedChain(route) ==
    LET n == Len(route.handler.fns)
    IN  (IF route.security.present THEN <<[name |-> "authorize", k |-> 0]>> ELSE <<>>)
        \o (IF route.handler.isArray THEN [k \in 1..(n - 1) |-> [name |-> "pre", k |-> k]]
            ELSE <<>>)
        \o [k \in 1..Len(route.validators) |-> [name |-> "validateInput", k |-> k]]
        \o <<[name |-> "handler", k |-> 0]>>

\* the place in its layer's chain of the step that ran i-th for the request
StepOf(i) ==
    CHOOSE s \in 1..Len(stack[trace[i].l].chain) :
        stack[trace[i].l].chain[s] = [name |-> trace[i].name, k |-> trace[i].k]

\* C12: the chain registered for a route under its resolved path and method is the
\* authorization middleware (exactly when the route has a security requirement), the
\* entries but the last of an array handler in order, one validator per parameter in
\* order, then the final handler; a step runs only once every earlier step of the chain
\* has called next without an error.
C12_ChainOrder ==
    /\ \A l \in RouteLayers :
        /\ stack[l].chain = DescribedChain(RouteAt(l))
        /\ stack[l].method = RouteAt(l).method
        /\ stack[l].path = BuildRoutePath(Mountpath(mounts[stack[l].m].basePath), RouteAt(l).path)
    /\ \A i \in 1..Len(trace) :
        (trace[i].l \in RouteLayers /\ StepOf(i) > 1) =>
            /\ i > 1
            /\ trace[i - 1].l = trace[i].l
            /\ StepOf(i - 1) = StepOf(i) - 1
            /\ trace[i - 1].fail = 0
            /\ trace[i - 1].name = "authorize" => auth.called = "next()"
    /\ pc = "auth" => Len(trace) = auth.at

\* C12's case: the final handler of a route with a security requirement, an array
\* handler and two parameters has run
C12_Witness ==
    /\ trace # <<>>
    /\ trace[Len(trace)].name = "handler"
    /\ RouteAt(trace[Len(trace)].l).security.present
    /\ Len(RouteAt(trace[Len(trace)].l).handler.fns) = 2
    /\ Len(RouteAt(trace[Len(trace)].l).validators) = 2
    /\ Len(trace) = 5

\* the comma-separated values of a header, with or without a space after the comma
CommaValues(header) ==
    IF header = <<>> THEN {}
    ELSE Range(SplitOn([i \in 1..Len(header) |-> IF header[i] = "," THEN ", " ELSE header[i]],
                       ", "))

\* a header the claim has accepted for a set of declared media types
Acceptable(header, types) ==
    \/ \E value \in CommaValues(header) : \E type \in types : Includes(value, type)
    \/ <<"*/*">> \in CommaValues(header)

\* C13: the Content-Type step and the Accept step do not reject a header one of whose
\* comma-separated values contains a declared media type as a substring, nor a header one
\* of whose values is '*/*'.
C13_SubstringMatching ==
    \A i \in 1..Len(trace) :
        /\ ( /\ trace[i].name = "validateContentTypeHeader"
             /\ Acceptable(req.ct, ConsumesAt(trace[i].l, ToLowerCase(req.method))) )
           => trace[i].fail = 0
        /\ ( /\ trace[i].name = "validateAcceptHeader"
             /\ Acceptable(req.accept, DeclaredForAccept(trace[i].l, ToLowerCase(req.method))) )
           => trace[i].fail = 0

\* the schemes that failed while authorize ran: those without an authorize function and
\* those whose function called back with an error before it returned
FailedAtOnce ==
    {i \in 1..Len(AuthSchemes) :
        \/ AuthSchemes[i].authorize = "none"
        \/ AuthSchemes[i].authorize = "sync" /\ <<i, FALSE>> \in auth.reported}

\* the schemes whose function called back with an error later
FailedLater ==
    {i \in 1..Len(AuthSchemes) :
        AuthSchemes[i].authorize = "async" /\ <<i, FALSE>> \in auth.reported}

\* err is the error of scheme i
ErrorOf(i) ==
    /\ err.from = AuthSchemes[i].name
    /\ err.title = IF AuthSchemes[i].authorize = "none" THEN "Unauthorized." ELSE "Denied"

FirstFailureForwarded ==
    IF FailedAtOnce # {}
    THEN ErrorOf(CHOOSE i \in FailedAtOnce : \A j \in FailedAtOnce : i <= j)
    ELSE \E i \in FailedLater : ErrorOf(i)

AuthorizationFailure ==
    auth.at # 0 =>
        /\ auth.called # "" <=> auth.result # ""
        /\ auth.result = "fail" =>
            /\ res.statusCode = 401
            /\ auth.called = "next(error)"
            /\ pc = "done"
            /\ Len(trace) = auth.at
            /\ FirstFailureForwarded
        /\ (\A i \in 1..Len(AuthSchemes) : AuthSchemes[i].authorize = "none") =>
            auth.result = "fail"

\* once authorize has called next, a callback that reports later calls nothing
NextCalledOnce ==
    (auth.called # "" /\ auth'.at = auth.at /\ auth' # auth) =>
        /\ auth'.called = auth.called
        /\ UNCHANGED <<pc, pos, err, res, trace>>

\* C14: a failed authorization has set the response status to 401 when it calls next,
\* calls next once, and hands it the error of the scheme that failed first ('Unauthorized.'
\* for a scheme without a callback); a requirement none of whose schemes has a callback
\* always fails.
C14_FailureIs401WithFirstError == []AuthorizationFailure /\ [][NextCalledOnce]_vars

\* C14's case: both schemes failed, the second one after authorize returned, and the error
\* of the first was forwarded
C14_Witness ==
    /\ auth.at # 0
    /\ auth.result = "fail"
    /\ Len(AuthSchemes) = 2
    /\ <<1, FALSE>> \in auth.reported
    /\ <<2, FALSE>> \in auth.reported
    /\ err.from = AuthSchemes[1].name
    /\ res.statusCode = 401

\* C15: registering the routes and serving requests leave every field of every route
\* object as it was when the routes were derived.
C15_RouteTableImmutable ==
    \A m \in 1..Len(mounts) : mounts[m].routes = mounts[m].given.routes

\* C16: a callback that reports after authorize returned finds in req.requiredScopes the
\* scopes of its own scheme, and when authorization has succeeded req.requiredScopes
\* holds the scopes of a scheme that reported success.
C16_RequiredScopesOfReporter ==
    auth.at # 0 =>
        /\ \A report \in auth.reported :
            AuthSchemes[report[1]].authorize = "async" =>
                req.requiredScopes = AuthSchemes[report[1]].scopes
        /\ auth.result = "ok" =>
            \E report \in auth.reported :
                report[2] /\ req.requiredScopes = AuthSchemes[report[1]].scopes

====
